---- MODULE Spec2Model ----
(***************************************************************************)
(* FleetOptima: the CSV-to-Load parser (src/utils/csvParser.ts), the time  *)
(* arithmetic (calculateMinutesBetween), the per-driver aggregation and    *)
(* the totals (the driverStats and totals memos of src/App.tsx), and the   *)
(* app's uploads and analysis requests (handleFileUpload, runAnalysis).    *)
(*                                                                         *)
(* Representation.                                                         *)
(*  - A JavaScript string is a sequence of one-character strings;          *)
(*    `undefined` (an array read past the end) is the value Undefined.     *)
(*  - A JavaScript number is an integer counting TENTHS (2.5 is 25), so    *)
(*    that Math.round is not the identity.  The input texts carry at most  *)
(*    one fractional digit and only 0 or 5 there, so that the binary       *)
(*    floating point sums of the program are exact and agree with the      *)
(*    integer arithmetic used here.  A number that may be NaN is the       *)
(*    record [nan, val]; a number the code has passed through `|| 0` is a  *)
(*    plain integer.                                                       *)
(*  - Exponents, hexadecimal literals and "Infinity" are outside the       *)
(*    alphabet of the input texts.  Driver names are not names of          *)
(*    Object.prototype properties ("constructor", "toString", ...).        *)
(***************************************************************************)
EXTENDS Integers, Sequences, FiniteSets, TLC

VARIABLES
    csvText,      \* the text handed to parseTransportCsv (FileReader result)
    lines,        \* csvText.split('\n')
    idx,          \* position of lines.forEach
    loads,        \* parseTransportCsv: const loads: Load[]
    currentLoad,  \* parseTransportCsv: let currentLoad (<<>> is null, <<l>> a Load)
    appLoads,     \* App: useState loads
    driverStats,  \* App: the driverStats memo
    time1,        \* calculateMinutesBetween: first argument
    time2,        \* calculateMinutesBetween: second argument
    minutes,      \* calculateMinutesBetween: returned value (<<>> before the call)
    pc,           \* position of the run
    analysis,     \* App: useState analysis (<<>> is null, <<r>> an AnalysisResult)
    isAnalyzing,  \* App: useState isAnalyzing
    inFlight,     \* the pending analyzeFleetPerformance call (<<>> none, <<stats>> its argument)
    calls,        \* observer: invocations of runAnalysis so far
    requests,     \* observer: requests sent to the analysis service so far
    errorLog,     \* console.error("Analysis failed", ...) lines so far
    lastOutcome   \* observer: how the latest completed service call ended

appVars == <<analysis, isAnalyzing, inFlight, calls, requests, errorLog, lastOutcome>>

vars == <<csvText, lines, idx, loads, currentLoad, appLoads, driverStats,
          time1, time2, minutes, pc, appVars>>

----------------------------------------------------------------------------
(* Strings *)

Undefined == <<"undefined">>

Digits == {"0", "1", "2", "3", "4", "5", "6", "7", "8", "9"}

DigitVal(c) == CHOOSE n \in 0..9 : <<"0", "1", "2", "3", "4", "5", "6", "7", "8", "9">>[n + 1] = c

\* White space removed by String.prototype.trim and skipped by the numeric parsers.
WhiteSpace == {" ", "\t", "\r", "\n"}

\* s.split(sep) for a one-character separator: never empty, "" gives [""].
RECURSIVE split(_, _)
split(s, sep) ==
    IF \A i \in 1..Len(s) : s[i] # sep
    THEN <<s>>
    ELSE LET k == CHOOSE i \in 1..Len(s) : s[i] = sep /\ \A j \in 1..(i - 1) : s[j] # sep
         IN  <<SubSeq(s, 1, k - 1)>> \o split(SubSeq(s, k + 1, Len(s)), sep)

\* The number of leading characters of s that lie in set.
LeadingIn(s, set) ==
    CHOOSE k \in 0..Len(s) :
        /\ \A i \in 1..k : s[i] \in set
        /\ (k < Len(s) => s[k + 1] \notin set)

TrailingIn(s, set) ==
    CHOOSE k \in 0..Len(s) :
        /\ \A i \in (Len(s) - k + 1)..Len(s) : s[i] \in set
        /\ (k < Len(s) => s[Len(s) - k] \notin set)

trimStart(s) == SubSeq(s, LeadingIn(s, WhiteSpace) + 1, Len(s))

trim(s) == LET t == trimStart(s) IN SubSeq(t, 1, Len(t) - TrailingIn(t, WhiteSpace))

\* array[i] with JavaScript's 0-based index: undefined past the end.
At(arr, i) == IF i + 1 <= Len(arr) THEN arr[i + 1] ELSE Undefined

\* ToString of an argument of parseInt / parseFloat.
ToStr(v) == IF v = Undefined THEN <<"u", "n", "d", "e", "f", "i", "n", "e", "d">> ELSE v

\* `v || dflt` on a string or undefined.
StrOr(v, dflt) == IF v = Undefined \/ v = <<>> THEN dflt ELSE v

----------------------------------------------------------------------------
(* Numbers *)

NaN == [nan |-> TRUE, val |-> 0]

Fin(n) == [nan |-> FALSE, val |-> n]

\* Whole units as tenths.
Num(n) == n * 10

RECURSIVE DecValue(_)
DecValue(ds) == IF ds = <<>> THEN 0 ELSE DecValue(SubSeq(ds, 1, Len(ds) - 1)) * 10 + DigitVal(ds[Len(ds)])

\* The longest prefix of t that is a StrDecimalLiteral without exponent:
\* [+-] digits [. digits] or [+-] . digits ; len = 0 when there is none.
\* The value keeps the first fractional digit: the input texts carry no more.
DecimalPrefix(t) ==
    LET signed == Len(t) > 0 /\ t[1] \in {"+", "-"}
        body   == IF signed THEN SubSeq(t, 2, Len(t)) ELSE t
        ni     == LeadingIn(body, Digits)
        rest   == SubSeq(body, ni + 1, Len(body))
        dot    == Len(rest) > 0 /\ rest[1] = "."
        nf     == IF dot THEN LeadingIn(SubSeq(rest, 2, Len(rest)), Digits) ELSE 0
        ok     == ni > 0 \/ nf > 0
        useDot == dot /\ (ni > 0 \/ nf > 0)
        mag    == Num(DecValue(SubSeq(body, 1, ni))) + (IF nf > 0 THEN DigitVal(rest[2]) ELSE 0)
    IN  [ok  |-> ok,
         len |-> IF ok THEN (IF signed THEN 1 ELSE 0) + ni + (IF useDot THEN 1 + nf ELSE 0) ELSE 0,
         val |-> IF signed /\ t[1] = "-" THEN 0 - mag ELSE mag]

\* parseFloat(v): the longest numeric prefix after leading white space, else NaN.
parseFloat(v) ==
    LET p == DecimalPrefix(trimStart(ToStr(v)))
    IN  IF p.ok THEN Fin(p.val) ELSE NaN

\* parseInt(v): optional sign and the leading decimal digits, else NaN.
parseInt(v) ==
    LET t      == trimStart(ToStr(v))
        signed == Len(t) > 0 /\ t[1] \in {"+", "-"}
        body   == IF signed THEN SubSeq(t, 2, Len(t)) ELSE t
        ni     == LeadingIn(body, Digits)
        mag    == Num(DecValue(SubSeq(body, 1, ni)))
    IN  IF ni = 0 THEN NaN
        ELSE Fin(IF signed /\ t[1] = "-" THEN 0 - mag ELSE mag)

\* Number(s) on a string: white space is trimmed, "" is 0, and the whole of
\* the rest must be a numeric literal.
Number(s) ==
    LET t == trim(s)
        p == DecimalPrefix(t)
    IN  IF t = <<>> THEN Fin(0)
        ELSE IF p.ok /\ p.len = Len(t) THEN Fin(p.val)
        ELSE NaN

\* `x || 0` on a number: NaN and 0 are falsy.
OrZero(x) == IF x.nan THEN 0 ELSE x.val

\* Math.round on tenths: the nearest integer, a half going up.
MathRound(t) == ((t + 5) \div 10) * 10

\* Arithmetic of numbers that may be NaN.
Times(x, n) == IF x.nan THEN NaN ELSE Fin(x.val * n)

Plus(x, y) == IF x.nan \/ y.nan THEN NaN ELSE Fin(x.val + y.val)

Minus(x, y) == IF x.nan \/ y.nan THEN NaN ELSE Fin(x.val - y.val)

MathAbs(x) == IF x.nan THEN NaN ELSE Fin(IF x.val < 0 THEN 0 - x.val ELSE x.val)

\* Math.round(total / count) for count > 0: floor(total / count + 1/2).
RoundedQuotient(total, count) ==
    IF total.nan THEN NaN
    ELSE Fin(Num((2 * total.val + Num(count)) \div (2 * Num(count))))

----------------------------------------------------------------------------
(* src/utils/csvParser.ts *)

UnloadMinutesPerStop == 30

\* Mutant: the sum is returned without Math.round.
calculateExpectedTime_NoRound(totalKms, stopCount) ==
    totalKms + stopCount * Num(30)

calculateExpectedTime(totalKms, stopCount) ==
    LET travelTimeMinutes    == totalKms
        unloadingTimeMinutes == stopCount * Num(UnloadMinutesPerStop)
    IN  MathRound(travelTimeMinutes + unloadingTimeMinutes)

\* line.split(',').map(c => c.trim())
Cols(line) == LET parts == split(line, ",") IN [i \in 1..Len(parts) |-> trim(parts[i])]

\* loadId && !isNaN(Number(loadId))
isNewLoad(cols) == LET loadId == At(cols, 0) IN loadId # <<>> /\ ~Number(loadId).nan

\* Mutant: distance and return leg read one column to the left.
MakeStop_ColumnsShifted(cols) ==
    [stopNo      |-> OrZero(parseInt(At(cols, 2))),
     storeNo     |-> At(cols, 3),
     storeName   |-> At(cols, 4),
     distance    |-> OrZero(parseFloat(At(cols, 10))),
     returnLeg   |-> OrZero(parseFloat(At(cols, 11))),
     windowStart |-> At(cols, 7),
     windowEnd   |-> At(cols, 8)]

MakeStop(cols) ==
    [stopNo      |-> OrZero(parseInt(At(cols, 2))),
     storeNo     |-> At(cols, 3),
     storeName   |-> At(cols, 4),
     distance    |-> OrZero(parseFloat(At(cols, 11))),
     returnLeg   |-> OrZero(parseFloat(At(cols, 12))),
     windowStart |-> At(cols, 7),
     windowEnd   |-> At(cols, 8)]

\* The object literal assigned to currentLoad when a new load id is met.
NewLoad(cols) ==
    LET stop == MakeStop(cols)
    IN  [loadNo         |-> At(cols, 0),
         routeNo        |-> At(cols, 1),
         driver         |-> StrOr(At(cols, 13), <<"U", "N", "K", "N", "O", "W", "N">>),
         truck          |-> StrOr(At(cols, 14), <<>>),
         trailer        |-> StrOr(At(cols, 15), <<>>),
         despatchTime   |-> StrOr(At(cols, 16), <<>>),
         date           |-> StrOr(At(cols, 6), <<>>),
         stops          |-> <<stop>>,
         totalPallets   |-> OrZero(parseInt(At(cols, 10))),
         totalDistance  |-> stop.distance,
         totalReturnLeg |-> stop.returnLeg]

\* Mutant: a row whose distance does not parse contributes no stop.
AddStopTo_SkipsUnparsable(cur, cols) ==
    LET stop == MakeStop(cols)
    IN  IF parseFloat(At(cols, 11)).nan THEN cur
        ELSE [cur EXCEPT !.stops          = Append(@, stop),
                         !.totalPallets   = @ + OrZero(parseInt(At(cols, 10))),
                         !.totalDistance  = @ + stop.distance,
                         !.totalReturnLeg = stop.returnLeg]

\* Mutant: the return leg is summed like the distance.
AddStopTo_SumsReturnLeg(cur, cols) ==
    LET stop == MakeStop(cols)
    IN  [cur EXCEPT !.stops          = Append(@, stop),
                    !.totalPallets   = @ + OrZero(parseInt(At(cols, 10))),
                    !.totalDistance  = @ + stop.distance,
                    !.totalReturnLeg = @ + stop.returnLeg]

\* Mutant: the driver is read again from every row of the load.
AddStopTo_RereadsDriver(cur, cols) ==
    LET stop == MakeStop(cols)
    IN  [cur EXCEPT !.stops          = Append(@, stop),
                    !.totalPallets   = @ + OrZero(parseInt(At(cols, 10))),
                    !.totalDistance  = @ + stop.distance,
                    !.totalReturnLeg = stop.returnLeg,
                    !.driver         = StrOr(At(cols, 13), <<"U", "N", "K", "N", "O", "W", "N">>)]

\* The else branch: the same load id, one more stop.
AddStopTo(cur, cols) ==
    LET stop == MakeStop(cols)
    IN  [cur EXCEPT !.stops          = Append(@, stop),
                    !.totalPallets   = @ + OrZero(parseInt(At(cols, 10))),
                    !.totalDistance  = @ + stop.distance,
                    !.totalReturnLeg = stop.returnLeg]

\* "Finalize previous load calculation": the derived field is set on the load.
Finalize(cur) ==
    LET totalDistance == cur.totalDistance + cur.totalReturnLeg
    IN  cur @@ [expectedTimeMinutes |-> calculateExpectedTime(totalDistance, Len(cur.stops))]

\* if (currentLoad && currentLoad.loadNo) { ...; loads.push(currentLoad) }
PushCurrent(ls, cur) ==
    IF cur # <<>> /\ cur[1].loadNo # <<>> THEN Append(ls, Finalize(cur[1])) ELSE ls

\* Mutant: a load id already met earlier in the text does not start a new load.
LoadIdChanges_OnlyFirst(cur, cols) == cur = <<>>

\* Mutant: the load ids are compared as numbers.
LoadIdChanges_AsNumbers(cur, cols) == IF cur = <<>> THEN TRUE ELSE Number(cur[1].loadNo) # Number(At(cols, 0))

\* !currentLoad || currentLoad.loadNo !== loadId
LoadIdChanges(cur, cols) == IF cur = <<>> THEN TRUE ELSE cur[1].loadNo # At(cols, 0)

\* The body of lines.forEach on one line, on the pair (loads, currentLoad).
ForEachLine(st, line) ==
    LET cols == Cols(line)
    IN  IF ~isNewLoad(cols) THEN st
        ELSE IF LoadIdChanges(st.currentLoad, cols)
             THEN [loads |-> PushCurrent(st.loads, st.currentLoad), currentLoad |-> <<NewLoad(cols)>>]
             ELSE [loads |-> st.loads, currentLoad |-> <<AddStopTo(st.currentLoad[1], cols)>>]

RECURSIVE ScanLines(_, _)
ScanLines(st, ls) == IF ls = <<>> THEN st ELSE ScanLines(ForEachLine(st, Head(ls)), Tail(ls))

\* The whole function, as one evaluation.
parseTransportCsv(text) ==
    LET st == ScanLines([loads |-> <<>>, currentLoad |-> <<>>], split(text, "\n"))
    IN  PushCurrent(st.loads, st.currentLoad)

\* calculateMinutesBetween: minutes of the day of one clock string.
TotalM(time) ==
    LET parts == split(time, ":")
        h     == Number(parts[1])
        m     == IF Len(parts) >= 2 THEN OrZero(Number(parts[2])) ELSE 0
    IN  Plus(Times(h, 60), Fin(m))

\* Mutant: a gap across midnight is taken the short way round the day.
calculateMinutesBetween_Wraps(t1, t2) ==
    IF t1 = <<>> \/ t2 = <<>> THEN Fin(0)
    ELSE LET d == MathAbs(Minus(TotalM(t2), TotalM(t1)))
         IN  IF ~d.nan /\ d.val > Num(720) THEN Fin(Num(1440) - d.val) ELSE d

calculateMinutesBetween(t1, t2) ==
    IF t1 = <<>> \/ t2 = <<>> THEN Fin(0)
    ELSE MathAbs(Minus(TotalM(t2), TotalM(t1)))

----------------------------------------------------------------------------
(* Array.prototype.sort and Object.values *)

\* The sign of a comparator's result; sort treats NaN as +0.
CmpSign(v) == IF v.nan THEN 0 ELSE IF v.val < 0 THEN 0 - 1 ELSE IF v.val > 0 THEN 1 ELSE 0

Reorderings(s) ==
    LET n == Len(s)
    IN  {[i \in 1..n |-> s[p[i]]] : p \in {q \in [1..n -> 1..n] : \A a, b \in 1..n : q[a] = q[b] => a = b}}

\* An own property key that is an array index (a canonical integer below
\* 2^32 - 1): enumerated first, ascending.  Keys of ten digits are outside the
\* driver names of the input texts.
IsArrayIndex(key) ==
    /\ key # <<>>
    /\ \A i \in 1..Len(key) : key[i] \in Digits
    /\ (Len(key) = 1 \/ key[1] # "0")
    /\ Len(key) <= 9

\* Object.values(statsMap), statsMap held as its entries in insertion order.
ObjectValues(map) ==
    LET n       == Len(map)
        isIdx(i) == IsArrayIndex(map[i].driverName)
        nIdx    == Cardinality({j \in 1..n : isIdx(j)})
        rank(i) == IF isIdx(i)
                   THEN 1 + Cardinality({j \in 1..n : isIdx(j) /\ DecValue(map[j].driverName) < DecValue(map[i].driverName)})
                   ELSE 1 + nIdx + Cardinality({j \in 1..(i - 1) : ~isIdx(j)})
    IN  [r \in 1..n |-> map[CHOOSE i \in 1..n : rank(i) = r]]

----------------------------------------------------------------------------
(* src/App.tsx: the driverStats memo *)

\* statsMap[driver] = { driverName, loads: [], totalKms: 0, ... }
EmptyStat(driver) ==
    [driverName                 |-> driver,
     loads                      |-> <<>>,
     totalKms                   |-> 0,
     totalPallets               |-> 0,
     avgTimeBetweenLoadsMinutes |-> Fin(0),
     avgExpectedTime            |-> [num |-> 0, den |-> 1]]

\* The three accumulating statements of loads.forEach.
Accumulate(stat, load) ==
    [stat EXCEPT !.loads        = Append(@, load),
                 !.totalKms     = @ + (load.totalDistance + load.totalReturnLeg),
                 !.totalPallets = @ + load.totalPallets]

\* The body of loads.forEach on one load.
AddToStatsMap(map, load) ==
    LET driver == load.driver
        known  == \E i \in 1..Len(map) : map[i].driverName = driver
        m      == IF known THEN map ELSE Append(map, EmptyStat(driver))
        k      == CHOOSE i \in 1..Len(m) : m[i].driverName = driver
    IN  [m EXCEPT ![k] = Accumulate(@, load)]

RECURSIVE GroupLoads(_, _)
GroupLoads(map, ls) == IF ls = <<>> THEN map ELSE GroupLoads(AddToStatsMap(map, Head(ls)), Tail(ls))

\* t[0] * 60 + (t[1] || 0) of the sort comparator.
DespatchMinutes(despatchTime) ==
    LET t == split(despatchTime, ":")
        h == Number(t[1])
        m == IF Len(t) >= 2 THEN OrZero(Number(t[2])) ELSE 0
    IN  Plus(Times(h, 60), Fin(m))

\* The comparator of stat.loads.sort.
CompareDespatch(a, b) == CmpSign(Minus(DespatchMinutes(a.despatchTime), DespatchMinutes(b.despatchTime)))

\* ECMAScript's "consistent comparator", for CompareDespatch over the loads of s.
ConsistentDespatch(s) ==
    \A i, j, k \in 1..Len(s) :
        /\ CompareDespatch(s[i], s[i]) = 0
        /\ (CompareDespatch(s[i], s[j]) = 0 => CompareDespatch(s[j], s[i]) = 0)
        /\ (CompareDespatch(s[i], s[j]) = 0 /\ CompareDespatch(s[j], s[k]) = 0 => CompareDespatch(s[i], s[k]) = 0)
        /\ (CompareDespatch(s[i], s[j]) < 0 /\ CompareDespatch(s[j], s[k]) < 0 => CompareDespatch(s[i], s[k]) < 0)
        /\ (CompareDespatch(s[i], s[j]) > 0 /\ CompareDespatch(s[j], s[k]) > 0 => CompareDespatch(s[i], s[k]) > 0)

\* Mutant: the sort is not stable, equal loads come out in reverse.
SortedByDespatch_TiesReversed(s) ==
    LET n       == Len(s)
        rank(i) == 1 + Cardinality({j \in 1..n : \/ CompareDespatch(s[j], s[i]) < 0
                                                 \/ (CompareDespatch(s[j], s[i]) = 0 /\ j > i)})
    IN  [r \in 1..n |-> s[CHOOSE i \in 1..n : rank(i) = r]]

\* The stable sort of the loads: a load goes after those that compare smaller
\* and after the equal ones that precede it.
SortedByDespatch(s) ==
    LET n       == Len(s)
        rank(i) == 1 + Cardinality({j \in 1..n : \/ CompareDespatch(s[j], s[i]) < 0
                                                 \/ (CompareDespatch(s[j], s[i]) = 0 /\ j < i)})
    IN  [r \in 1..n |-> s[CHOOSE i \in 1..n : rank(i) = r]]

\* What stat.loads.sort may leave: the stable order under a consistent
\* comparator, an implementation-defined order otherwise.
SortOutcomes(s) ==
    IF ConsistentDespatch(s) THEN {SortedByDespatch(s)} ELSE Reorderings(s)

\* Mutant: the final sort ascends: a.totalKms - b.totalKms.
CompareKms_Ascending(a, b) == CmpSign(Fin(a.totalKms - b.totalKms))

\* The comparator of the final sort: b.totalKms - a.totalKms.
CompareKms(a, b) == CmpSign(Fin(b.totalKms - a.totalKms))

\* The final sort, stable: totalKms is never NaN, the comparator is consistent.
SortedByKms(s) ==
    LET n       == Len(s)
        rank(i) == 1 + Cardinality({j \in 1..n : \/ CompareKms(s[j], s[i]) < 0
                                                 \/ (CompareKms(s[j], s[i]) = 0 /\ j < i)})
    IN  [r \in 1..n |-> s[CHOOSE i \in 1..n : rank(i) = r]]

RECURSIVE TotalGap(_)
TotalGap(sorted) ==
    IF Len(sorted) < 2 THEN Fin(0)
    ELSE Plus(TotalGap(SubSeq(sorted, 1, Len(sorted) - 1)),
              calculateMinutesBetween(sorted[Len(sorted) - 1].despatchTime, sorted[Len(sorted)].despatchTime))

\* Mutant: the gaps are averaged over the loads, not over the gaps.
AvgTimeBetweenLoads_PerLoad(sorted) ==
    LET gapCount == IF Len(sorted) >= 1 THEN Len(sorted) - 1 ELSE 0
    IN  IF gapCount > 0 THEN RoundedQuotient(TotalGap(sorted), Len(sorted)) ELSE Fin(0)

\* gapCount > 0 ? Math.round(totalGap / gapCount) : 0
AvgTimeBetweenLoads(sorted) ==
    LET gapCount == IF Len(sorted) >= 1 THEN Len(sorted) - 1 ELSE 0
    IN  IF gapCount > 0 THEN RoundedQuotient(TotalGap(sorted), gapCount) ELSE Fin(0)

RECURSIVE TotalExpected(_)
TotalExpected(ls) == IF ls = <<>> THEN 0 ELSE ls[1].expectedTimeMinutes + TotalExpected(Tail(ls))

\* The body of Object.values(statsMap).forEach once stat.loads is sorted.
FinishStat(stat, sorted) ==
    [stat EXCEPT !.loads                      = sorted,
                 !.avgTimeBetweenLoadsMinutes = AvgTimeBetweenLoads(sorted),
                 !.avgExpectedTime            = IF Len(sorted) > 0
                                                THEN [num |-> TotalExpected(sorted), den |-> Len(sorted)]
                                                ELSE [num |-> 0, den |-> 1]]

\* One sorted loads array per entry, each among what its sort may leave.
RECURSIVE SortChoices(_)
SortChoices(entries) ==
    IF entries = <<>> THEN {<<>>}
    ELSE {<<h>> \o t : h \in SortOutcomes(Head(entries).loads),
                       t \in SortChoices(Tail(entries))}

\* Every value the driverStats memo may take for a load list.
DriverStatsOutcomes(ls) ==
    LET entries == ObjectValues(GroupLoads(<<>>, ls))
    IN  {SortedByKms([i \in 1..Len(entries) |-> FinishStat(entries[i], f[i])])
            : f \in SortChoices(entries)}

\* driverStats.reduce((acc, curr) => acc + curr.totalKms, 0)
RECURSIVE ReduceKms(_)
ReduceKms(ds) == IF ds = <<>> THEN 0 ELSE ReduceKms(SubSeq(ds, 1, Len(ds) - 1)) + ds[Len(ds)].totalKms

\* driverStats.reduce((acc, curr) => acc + curr.totalPallets, 0)
RECURSIVE ReducePallets(_)
ReducePallets(ds) == IF ds = <<>> THEN 0 ELSE ReducePallets(SubSeq(ds, 1, Len(ds) - 1)) + ds[Len(ds)].totalPallets

\* Mutant: the drivers card counts the loads.
totals_DriversAreLoads(ls, ds) ==
    [loads           |-> Len(ls),
     kms             |-> ReduceKms(ds),
     drivers         |-> Len(ls),
     pallets         |-> ReducePallets(ds),
     avgExpectedTime |-> IF Len(ls) > 0 THEN [num |-> TotalExpected(ls), den |-> Len(ls)]
                                        ELSE [num |-> 0, den |-> 1]]

\* The totals memo; avgExpectedTime is the quotient num / den, left undivided.
totals(ls, ds) ==
    [loads           |-> Len(ls),
     kms             |-> ReduceKms(ds),
     drivers         |-> Len(ds),
     pallets         |-> ReducePallets(ds),
     avgExpectedTime |-> IF Len(ls) > 0 THEN [num |-> TotalExpected(ls), den |-> Len(ls)]
                                        ELSE [num |-> 0, den |-> 1]]

----------------------------------------------------------------------------
(* The input texts *)

\* "1,R1,1,S1,StoreA,,,,,0,10,5,2,D1,T1,TR1,8:00": the first row of the documented scenario
RowA1 ==
    <<"1", ",", "R", "1", ",", "1", ",", "S", "1", ",", "S", "t", "o", "r", "e", "A", ",", ",", ",", ",", ",", "0", ",", "1", "0", ",", "5", ",", "2", ",", "D", "1", ",", "T", "1", ",", "T", "R", "1", ",", "8", ":", "0", "0">>

\* "1,R1,2,S2,StoreB,,,,,0,15,3,3,D1,T1,TR1,8:00": the second row of the documented scenario
RowA2 ==
    <<"1", ",", "R", "1", ",", "2", ",", "S", "2", ",", "S", "t", "o", "r", "e", "B", ",", ",", ",", ",", ",", "0", ",", "1", "5", ",", "3", ",", "3", ",", "D", "1", ",", "T", "1", ",", "T", "R", "1", ",", "8", ":", "0", "0">>

\* "2,R2,1,S3,C,,d1,7:00,9:00,,4,2.5,1,D1,T2,TR2,9:35": load 2: a fractional distance, a date and a delivery window
RowB ==
    <<"2", ",", "R", "2", ",", "1", ",", "S", "3", ",", "C", ",", ",", "d", "1", ",", "7", ":", "0", "0", ",", "9", ":", "0", "0", ",", ",", "4", ",", "2", ".", "5", ",", "1", ",", "D", "1", ",", "T", "2", ",", "T", "R", "2", ",", "9", ":", "3", "5">>

\* " 1 ,R9,x,S4,D,,d2,,,,,abc,,D2,T9,TR9,7:15": load 1 again, padded: other scalars, unparsable stop number and distance, no pallets, no return leg
RowOdd ==
    <<" ", "1", " ", ",", "R", "9", ",", "x", ",", "S", "4", ",", "D", ",", ",", "d", "2", ",", ",", ",", ",", ",", "a", "b", "c", ",", ",", "D", "2", ",", "T", "9", ",", "T", "R", "9", ",", "7", ":", "1", "5">>

\* "Load,Route,Stop": a header line
RowHeader ==
    <<"L", "o", "a", "d", ",", "R", "o", "u", "t", "e", ",", "S", "t", "o", "p">>

\* "": a blank line
RowBlank ==
    <<>>

\* "3": a row of one column
RowShort ==
    <<"3">>

\* "2,R2,1,S5,E,,,,,,1,20,0,D1,T1,TR1,23:50": load 2, despatched just before midnight
RowLate ==
    <<"2", ",", "R", "2", ",", "1", ",", "S", "5", ",", "E", ",", ",", ",", ",", ",", ",", "1", ",", "2", "0", ",", "0", ",", "D", "1", ",", "T", "1", ",", "T", "R", "1", ",", "2", "3", ":", "5", "0">>

\* "3,R3,1,S6,F,,,,,,1,10,0,D1,T1,TR1,00:10": load 3, despatched just after midnight
RowEarly ==
    <<"3", ",", "R", "3", ",", "1", ",", "S", "6", ",", "F", ",", ",", ",", ",", ",", ",", "1", ",", "1", "0", ",", "0", ",", "D", "1", ",", "T", "1", ",", "T", "R", "1", ",", "0", "0", ":", "1", "0">>

\* "01,R4,1,S7,G,,,,,,2,-5,5,7,T3,TR3,8": load 01: a negative distance, the driver named 7, a despatch time without minutes
RowSeven ==
    <<"0", "1", ",", "R", "4", ",", "1", ",", "S", "7", ",", "G", ",", ",", ",", ",", ",", ",", "2", ",", "-", "5", ",", "5", ",", "7", ",", "T", "3", ",", "T", "R", "3", ",", "8">>

RowPool == {RowA1, RowA2, RowB, RowOdd, RowHeader, RowBlank, RowShort, RowLate, RowEarly, RowSeven}

MaxLines == 3

\* The lines joined by line feeds; no line is the empty text, one blank line too.
RECURSIVE JoinLines(_)
JoinLines(ls) ==
    IF ls = <<>> THEN <<>>
    ELSE IF Len(ls) = 1 THEN ls[1]
    ELSE ls[1] \o <<"\n">> \o JoinLines(Tail(ls))

Texts == {JoinLines(ls) : ls \in UNION {[1..n -> RowPool] : n \in 0..MaxLines}}

\* Clock strings: well formed ones, and ones that are not.
WellFormedClocks ==
    {<<"8", ":", "0", "0">>, <<"9", ":", "3", "5">>, <<"2", "3", ":", "5", "0">>,
     <<"0", "0", ":", "1", "0">>, <<"7", ":", "0", "5">>, <<"1", "2", ":", "3", "0">>,
     <<"0", ":", "0", "0">>, <<"9", ":", "3", "0">>}

OtherClocks ==
    {<<>>, <<"8">>, <<"8", ":">>, <<":", "3", "0">>, <<"a", "b", "c">>, <<"9", ":", "x">>}

ClockStrings == WellFormedClocks \cup OtherClocks

\* A file of two one-stop loads of one driver, despatched at t1 and at t2.
PairText(t1, t2) ==
    <<"1", ",", "R", ",", "1", ",", "S", ",", "N", ",", ",", ",", ",", ",", ",", "1", ",", "5", ",", "0", ",", "D", ",", "T", ",", "L", ",">> \o t1
    \o <<"\n">> \o
    <<"2", ",", "R", ",", "1", ",", "S", ",", "N", ",", ",", ",", ",", ",", ",", "1", ",", "5", ",", "0", ",", "D", ",", "T", ",", "L", ",">> \o t2

----------------------------------------------------------------------------
(* The run of one upload: parseTransportCsv line by line, then the memo *)

\* App: analysis = null, isAnalyzing = false, nothing requested yet.
AppInit ==
    /\ analysis = <<>>
    /\ isAnalyzing = FALSE
    /\ inFlight = <<>>
    /\ calls = 0
    /\ requests = 0
    /\ errorLog = 0
    /\ lastOutcome = "none"

Init ==
    /\ csvText \in Texts
    /\ lines = <<>>
    /\ idx = 0
    /\ loads = <<>>
    /\ currentLoad = <<>>
    /\ appLoads = <<>>
    /\ driverStats = <<>>
    /\ time1 = <<>>
    /\ time2 = <<>>
    /\ minutes = <<>>
    /\ pc = "start"
    /\ AppInit

\* const lines = csvText.split('\n'); const loads = []; let currentLoad = null
SplitLines ==
    /\ pc = "start"
    /\ lines' = split(csvText, "\n")
    /\ idx' = 1
    /\ loads' = <<>>
    /\ currentLoad' = <<>>
    /\ pc' = "scan"
    /\ UNCHANGED <<csvText, appLoads, driverStats, time1, time2, minutes>>
    /\ UNCHANGED appVars

\* Mutant: a line that is no load row ends the accumulating load.
SkipLine_EndsLoad ==
    /\ pc = "scan"
    /\ idx <= Len(lines)
    /\ ~isNewLoad(Cols(lines[idx]))
    /\ idx' = idx + 1
    /\ loads' = PushCurrent(loads, currentLoad)
    /\ currentLoad' = <<>>
    /\ UNCHANGED <<csvText, lines, appLoads, driverStats, time1, time2, minutes, pc>>
    /\ UNCHANGED appVars

\* forEach on a line that is no load row.
SkipLine ==
    /\ pc = "scan"
    /\ idx <= Len(lines)
    /\ ~isNewLoad(Cols(lines[idx]))
    /\ idx' = idx + 1
    /\ UNCHANGED <<csvText, lines, loads, currentLoad, appLoads, driverStats, time1, time2, minutes, pc>>
    /\ UNCHANGED appVars

\* forEach on a load row whose load id is not that of currentLoad.
StartLoad ==
    /\ pc = "scan"
    /\ idx <= Len(lines)
    /\ isNewLoad(Cols(lines[idx]))
    /\ LoadIdChanges(currentLoad, Cols(lines[idx]))
    /\ loads' = PushCurrent(loads, currentLoad)
    /\ currentLoad' = <<NewLoad(Cols(lines[idx]))>>
    /\ idx' = idx + 1
    /\ UNCHANGED <<csvText, lines, appLoads, driverStats, time1, time2, minutes, pc>>
    /\ UNCHANGED appVars

\* forEach on a load row with the load id of currentLoad.
AddStop ==
    /\ pc = "scan"
    /\ idx <= Len(lines)
    /\ isNewLoad(Cols(lines[idx]))
    /\ ~LoadIdChanges(currentLoad, Cols(lines[idx]))
    /\ currentLoad' = <<AddStopTo(currentLoad[1], Cols(lines[idx]))>>
    /\ idx' = idx + 1
    /\ UNCHANGED <<csvText, lines, loads, appLoads, driverStats, time1, time2, minutes, pc>>
    /\ UNCHANGED appVars

\* "Push the final load", return loads; the caller's setLoads(parsed).
PushFinal ==
    /\ pc = "scan"
    /\ idx > Len(lines)
    /\ loads' = PushCurrent(loads, currentLoad)
    /\ appLoads' = loads'
    /\ pc' = "parsed"
    /\ UNCHANGED <<csvText, lines, idx, currentLoad, driverStats, time1, time2, minutes>>
    /\ UNCHANGED appVars

\* Mutant: the memo sorts the load list itself.
Render_SortsLoadList ==
    /\ pc = "parsed"
    /\ appLoads' = SortedByDespatch(appLoads)
    /\ driverStats' \in DriverStatsOutcomes(appLoads)
    /\ pc' = "done"
    /\ UNCHANGED <<csvText, lines, idx, loads, currentLoad, time1, time2, minutes>>
    /\ UNCHANGED appVars

\* The render after setLoads: the driverStats memo is recomputed.
Render ==
    /\ pc = "parsed"
    /\ driverStats' \in DriverStatsOutcomes(appLoads)
    /\ pc' = "done"
    /\ UNCHANGED <<csvText, lines, idx, loads, currentLoad, appLoads, time1, time2, minutes>>
    /\ UNCHANGED appVars

Next == SplitLines \/ SkipLine \/ StartLoad \/ AddStop \/ PushFinal \/ Render

Spec == Init /\ [][Next]_vars

----------------------------------------------------------------------------
(* The time arithmetic on a pair of clock strings, and the pair as the       *)
(* despatch times of one driver's two loads                                  *)

InitTime ==
    /\ time1 \in ClockStrings
    /\ time2 \in ClockStrings
    /\ minutes = <<>>
    /\ csvText = <<>>
    /\ lines = <<>>
    /\ idx = 0
    /\ loads = <<>>
    /\ currentLoad = <<>>
    /\ appLoads = <<>>
    /\ driverStats = <<>>
    /\ pc = "call"
    /\ AppInit

CallMinutesBetween ==
    /\ pc = "call"
    /\ minutes' = <<calculateMinutesBetween(time1, time2)>>
    /\ pc' = "called"
    /\ UNCHANGED <<csvText, lines, idx, loads, currentLoad, appLoads, driverStats, time1, time2>>
    /\ UNCHANGED appVars

\* reader.onload on the two-load file, and the render that follows.
UploadPair ==
    /\ pc = "called"
    /\ csvText' = PairText(time1, time2)
    /\ appLoads' = parseTransportCsv(csvText')
    /\ driverStats' \in DriverStatsOutcomes(appLoads')
    /\ pc' = "done"
    /\ UNCHANGED <<lines, idx, loads, currentLoad, time1, time2, minutes>>
    /\ UNCHANGED appVars

NextTime == CallMinutesBetween \/ UploadPair

SpecTime == InitTime /\ [][NextTime]_vars

----------------------------------------------------------------------------
(* The app: file uploads, analysis requests and their completions, in any    *)
(* order.  An upload is reader.onload as a whole (parse, setLoads, render).  *)
(* The answer of the analysis service is known only by the DriverStats it    *)
(* was asked about.                                                          *)

\* "1,R5,1,S8,H,,,,,,1,5,0,Bob,T4,TR4,8:00": the load of the driver named Bob, 5 km
RowBob ==
    <<"1", ",", "R", "5", ",", "1", ",", "S", "8", ",", "H", ",", ",", ",", ",", ",", ",", "1", ",", "5", ",", "0", ",", "B", "o", "b", ",", "T", "4", ",", "T", "R", "4", ",", "8", ":", "0", "0">>

\* "2,R6,1,S9,I,,,,,,1,5,0,7,T5,TR5,9:00": the load of the driver named 7, 5 km as well
RowDigits ==
    <<"2", ",", "R", "6", ",", "1", ",", "S", "9", ",", "I", ",", ",", ",", ",", ",", ",", "1", ",", "5", ",", "0", ",", "7", ",", "T", "5", ",", "T", "R", "5", ",", "9", ":", "0", "0">>

\* "1.0,R7,1,S10,J,,,,,,1,2,0,D3,T6,TR6,10:00": the load with the id 1.0
RowDecimal ==
    <<"1", ".", "0", ",", "R", "7", ",", "1", ",", "S", "1", "0", ",", "J", ",", ",", ",", ",", ",", ",", "1", ",", "2", ",", "0", ",", "D", "3", ",", "T", "6", ",", "T", "R", "6", ",", "1", "0", ":", "0", "0">>

\* Rows with the ids "1", " 1 ", "01" and "1.0", one after the other.
IdsText == JoinLines(<<RowA1, RowOdd, RowSeven, RowDecimal>>)

\* The files at hand: the empty file, one driver's load, two drivers' loads,
\* the loads of Bob and of 7, and the file of the four ids.
AppTexts == {<<>>, JoinLines(<<RowA1, RowA2>>), JoinLines(<<RowB, RowSeven>>), JoinLines(<<RowBob, RowDigits>>), IdsText}

MaxCalls == 3

InitApp ==
    /\ csvText = <<>>
    /\ lines = <<>>
    /\ idx = 0
    /\ loads = <<>>
    /\ currentLoad = <<>>
    /\ appLoads = <<>>
    /\ driverStats = <<>>
    /\ time1 = <<>>
    /\ time2 = <<>>
    /\ minutes = <<>>
    /\ pc = "app"
    /\ AppInit

\* reader.onload: setCsvData(text); setLoads(parseTransportCsv(text)); the
\* render recomputes the driverStats memo.  analysis is not touched.
handleFileUpload ==
    /\ pc = "app"
    /\ \E text \in AppTexts :
           /\ csvText' = text
           /\ appLoads' = parseTransportCsv(text)
           /\ driverStats' \in DriverStatsOutcomes(appLoads')
    /\ UNCHANGED <<lines, idx, loads, currentLoad, time1, time2, minutes, pc>>
    /\ UNCHANGED appVars

\* runAnalysis up to its await.  The button is disabled while isAnalyzing.
\* (With no loads the button is not rendered; the call, were it made,
\* returns at once.)
runAnalysis ==
    /\ pc = "app"
    /\ ~isAnalyzing
    /\ calls < MaxCalls
    /\ calls' = calls + 1
    /\ IF driverStats = <<>>
       THEN UNCHANGED <<isAnalyzing, inFlight, requests>>
       ELSE /\ isAnalyzing' = TRUE
            /\ inFlight' = <<driverStats>>
            /\ requests' = requests + 1
    /\ UNCHANGED <<analysis, errorLog, lastOutcome>>
    /\ UNCHANGED <<csvText, lines, idx, loads, currentLoad, appLoads, driverStats, time1, time2, minutes, pc>>

\* The await resolves: setAnalysis(result); finally setIsAnalyzing(false).
AnalysisResolves ==
    /\ pc = "app"
    /\ inFlight # <<>>
    /\ analysis' = <<[computedFrom |-> inFlight[1]]>>
    /\ isAnalyzing' = FALSE
    /\ inFlight' = <<>>
    /\ lastOutcome' = "ok"
    /\ UNCHANGED <<calls, requests, errorLog>>
    /\ UNCHANGED <<csvText, lines, idx, loads, currentLoad, appLoads, driverStats, time1, time2, minutes, pc>>

\* Mutant: the catch block asks the service again.
AnalysisRejects_Retries ==
    /\ pc = "app"
    /\ inFlight # <<>>
    /\ errorLog < MaxCalls
    /\ errorLog' = errorLog + 1
    /\ requests' = requests + 1
    /\ lastOutcome' = "failed"
    /\ UNCHANGED <<analysis, isAnalyzing, inFlight, calls>>
    /\ UNCHANGED <<csvText, lines, idx, loads, currentLoad, appLoads, driverStats, time1, time2, minutes, pc>>

\* The await rejects (the request, or JSON.parse of its response):
\* catch console.error(...); finally setIsAnalyzing(false).
AnalysisRejects ==
    /\ pc = "app"
    /\ inFlight # <<>>
    /\ errorLog' = errorLog + 1
    /\ isAnalyzing' = FALSE
    /\ inFlight' = <<>>
    /\ lastOutcome' = "failed"
    /\ UNCHANGED <<analysis, calls, requests>>
    /\ UNCHANGED <<csvText, lines, idx, loads, currentLoad, appLoads, driverStats, time1, time2, minutes, pc>>

NextApp == handleFileUpload \/ runAnalysis \/ AnalysisResolves \/ AnalysisRejects

SpecApp == InitApp /\ [][NextApp]_vars

----------------------------------------------------------------------------
(* The input seen as rows and blocks, for the statements below *)

Parsed == pc \in {"parsed", "done"}

\* The trimmed columns of the data rows of the input text, in order.
DataRows ==
    LET ls == split(csvText, "\n")
    IN  SelectSeq([i \in 1..Len(ls) |-> Cols(ls[i])], isNewLoad)

RowId(rows, r) == rows[r][1]

\* The maximal block of consecutive data rows with one load id that holds row r.
BlockOf(rows, r) == 1 + Cardinality({q \in 2..r : RowId(rows, q) # RowId(rows, q - 1)})

NumBlocks(rows) == IF rows = <<>> THEN 0 ELSE BlockOf(rows, Len(rows))

BlockFirst(rows, b) == CHOOSE r \in 1..Len(rows) : BlockOf(rows, r) = b /\ (r = 1 \/ BlockOf(rows, r - 1) # b)

BlockLast(rows, b) == CHOOSE r \in 1..Len(rows) : BlockOf(rows, r) = b /\ (r = Len(rows) \/ BlockOf(rows, r + 1) # b)

BlockSize(rows, b) == BlockLast(rows, b) - BlockFirst(rows, b) + 1

\* The pallets, distance and return leg of a row: 0 when the field does not parse.
RowPallets(row) == IF parseInt(At(row, 10)).nan THEN 0 ELSE parseInt(At(row, 10)).val

RowDistance(row) == IF parseFloat(At(row, 11)).nan THEN 0 ELSE parseFloat(At(row, 11)).val

RowReturnLeg(row) == IF parseFloat(At(row, 12)).nan THEN 0 ELSE parseFloat(At(row, 12)).val

RECURSIVE SumOver(_, _, _, _)
SumOver(rows, from, to, field) ==
    IF from > to THEN 0
    ELSE (CASE field = "pallets"  -> RowPallets(rows[to])
            [] field = "distance" -> RowDistance(rows[to]))
         + SumOver(rows, from, to - 1, field)

RECURSIVE SumStopDistance(_)
SumStopDistance(stops) == IF stops = <<>> THEN 0 ELSE stops[1].distance + SumStopDistance(Tail(stops))

\* The load carries the totals of the rows of block b and of no other row.
OwnBlockTotals(load, rows, b) ==
    LET f == BlockFirst(rows, b)
        l == BlockLast(rows, b)
    IN  /\ Len(load.stops) = l - f + 1
        /\ \A k \in 1..Len(load.stops) : load.stops[k].storeNo = At(rows[f + k - 1], 3)
        /\ load.totalPallets = SumOver(rows, f, l, "pallets")
        /\ load.totalDistance = SumOver(rows, f, l, "distance")
        /\ load.totalReturnLeg = RowReturnLeg(rows[l])
        /\ load.expectedTimeMinutes
             = MathRound(SumOver(rows, f, l, "distance") + RowReturnLeg(rows[l]) + Num(30) * (l - f + 1))

ScenarioText == JoinLines(<<RowA1, RowA2>>)

----------------------------------------------------------------------------
(* C1 *)

\* C1 as stated: the two-row scenario text yields one Load with loadNo "1",
\* 2 stops, totalPallets 5, totalDistance 25, totalReturnLeg 3 and
\* expectedTimeMinutes 88.
C1_ScenarioAsStated ==
    (Parsed /\ csvText = ScenarioText) =>
        /\ Len(appLoads) = 1
        /\ appLoads[1].loadNo = <<"1">>
        /\ Len(appLoads[1].stops) = 2
        /\ appLoads[1].totalPallets = Num(5)
        /\ appLoads[1].totalDistance = Num(25)
        /\ appLoads[1].totalReturnLeg = Num(3)
        /\ appLoads[1].expectedTimeMinutes = Num(88)

\* C1 amended: with pallets read at column 10, distance at column 11 and
\* return leg at column 12, the scenario text yields one Load with loadNo "1",
\* 2 stops, totalPallets 25, totalDistance 8, totalReturnLeg 3 and
\* expectedTimeMinutes round(8 + 3 + 2 * 30) = 71.
C1_Scenario ==
    (Parsed /\ csvText = ScenarioText) =>
        /\ Len(appLoads) = 1
        /\ appLoads[1].loadNo = <<"1">>
        /\ Len(appLoads[1].stops) = 2
        /\ appLoads[1].totalPallets = Num(25)
        /\ appLoads[1].totalDistance = Num(8)
        /\ appLoads[1].totalReturnLeg = Num(3)
        /\ appLoads[1].expectedTimeMinutes = Num(71)

C1_Witness == pc = "parsed" /\ csvText = ScenarioText /\ Len(appLoads) = 1

----------------------------------------------------------------------------
(* C2 *)

\* Rows i < j < k with the load id of i and k equal and that of j different.
Recurs(rows, i, j, k) ==
    /\ i < j /\ j < k
    /\ RowId(rows, i) = RowId(rows, k)
    /\ RowId(rows, j) # RowId(rows, i)

\* C2: grouping is by adjacency only: when rows of load id A are followed by
\* a row of another id B and then by rows of id A again, the output holds two
\* separate Loads with loadNo A, before and after the B Load in row order, each
\* with the stops, totals and expected time of its own block only.
C2_AdjacencyGrouping ==
    Parsed =>
        LET rows == DataRows
        IN  \A i, j, k \in 1..Len(rows) :
                Recurs(rows, i, j, k) =>
                    LET bi == BlockOf(rows, i)
                        bj == BlockOf(rows, j)
                        bk == BlockOf(rows, k)
                    IN  /\ bi < bj /\ bj < bk
                        /\ Len(appLoads) >= bk
                        /\ appLoads[bi].loadNo = RowId(rows, i)
                        /\ appLoads[bj].loadNo = RowId(rows, j)
                        /\ appLoads[bk].loadNo = RowId(rows, i)
                        /\ OwnBlockTotals(appLoads[bi], rows, bi)
                        /\ OwnBlockTotals(appLoads[bk], rows, bk)

C2_Witness ==
    /\ pc = "parsed"
    /\ \E i, j, k \in 1..Len(DataRows) : Recurs(DataRows, i, j, k)
    /\ Len(appLoads) = 3
    /\ appLoads[1].loadNo = appLoads[3].loadNo

----------------------------------------------------------------------------
(* C3 *)

RECURSIVE SumStops(_)
SumStops(ls) == IF ls = <<>> THEN 0 ELSE Len(ls[1].stops) + SumStops(Tail(ls))

\* The stop made of a row: its identifiers, and numbers that are 0 when the
\* field is empty or does not parse.
StopOfRow(stop, row) ==
    /\ stop.storeNo = At(row, 3)
    /\ stop.storeName = At(row, 4)
    /\ (parseInt(At(row, 2)).nan => stop.stopNo = 0)
    /\ (parseFloat(At(row, 11)).nan => stop.distance = 0)
    /\ (parseFloat(At(row, 12)).nan => stop.returnLeg = 0)

\* C3: each maximal block of consecutive data rows with one load id gives
\* exactly one Load, whose stops are one StoreStop per row of the block in row
\* order, also when a numeric field of a row is empty or unparsable (it
\* becomes 0); the stops of all Loads together number the data rows.
C3_OneLoadPerBlock ==
    Parsed =>
        LET rows == DataRows
        IN  /\ Len(appLoads) = NumBlocks(rows)
            /\ \A b \in 1..Len(appLoads) :
                   /\ appLoads[b].loadNo = RowId(rows, BlockFirst(rows, b))
                   /\ Len(appLoads[b].stops) = BlockSize(rows, b)
                   /\ \A k \in 1..Len(appLoads[b].stops) :
                          StopOfRow(appLoads[b].stops[k], rows[BlockFirst(rows, b) + k - 1])
            /\ SumStops(appLoads) = Len(rows)

\* A block of two rows or more, one of them with an unparsable distance.
C3_Witness ==
    /\ pc = "parsed"
    /\ \E b \in 1..Len(appLoads) :
           /\ Len(appLoads[b].stops) >= 2
           /\ \E r \in BlockFirst(DataRows, b)..BlockLast(DataRows, b) :
                  /\ r > BlockFirst(DataRows, b)
                  /\ parseFloat(At(DataRows[r], 11)).nan
                  /\ parseInt(At(DataRows[r], 10)).nan

----------------------------------------------------------------------------
(* C4 *)

\* C4: for every emitted Load, totalPallets is the sum of the pallet counts of
\* all rows of its block, totalDistance is the sum of the distances of its
\* stops, and totalReturnLeg is the returnLeg of its last stop only (0 when
\* the last row's return-leg field is unparsable).
C4_BlockTotals ==
    Parsed =>
        LET rows == DataRows
        IN  \A b \in 1..Len(appLoads) :
                LET load == appLoads[b]
                    f    == BlockFirst(rows, b)
                    l    == BlockLast(rows, b)
                IN  /\ b <= NumBlocks(rows)
                    /\ load.totalPallets = SumOver(rows, f, l, "pallets")
                    /\ load.totalDistance = SumStopDistance(load.stops)
                    /\ load.totalDistance = SumOver(rows, f, l, "distance")
                    /\ load.totalReturnLeg = load.stops[Len(load.stops)].returnLeg
                    /\ load.totalReturnLeg = RowReturnLeg(rows[l])
                    /\ (parseFloat(At(rows[l], 12)).nan => load.totalReturnLeg = 0)

\* A Load of two stops whose first stop has a return leg and whose last row
\* has none that parses: the total is reset to 0.
C4_Witness ==
    /\ pc = "parsed"
    /\ \E b \in 1..Len(appLoads) :
           /\ Len(appLoads[b].stops) = 2
           /\ appLoads[b].stops[1].returnLeg > 0
           /\ appLoads[b].totalReturnLeg = 0
           /\ parseFloat(At(DataRows[BlockLast(DataRows, b)], 12)).nan
           /\ appLoads[b].totalPallets > 0

----------------------------------------------------------------------------
(* C5 *)

HasExpectedTime(load) ==
    /\ "expectedTimeMinutes" \in DOMAIN load
    /\ load.expectedTimeMinutes
         = MathRound(load.totalDistance + load.totalReturnLeg + Num(30) * Len(load.stops))

\* C5: every Load of the returned list, finalized by a change of load id or
\* by the end of the input, has expectedTimeMinutes = round(totalDistance +
\* totalReturnLeg + 30 * stops.length) on its final totals and stop count:
\* none is emitted without it or with the value of a prefix of its block.
C5_ExpectedTime ==
    /\ \A n \in 1..Len(loads) : HasExpectedTime(loads[n])
    /\ Parsed =>
           LET rows == DataRows
           IN  \A b \in 1..Len(appLoads) :
                   /\ HasExpectedTime(appLoads[b])
                   /\ b <= NumBlocks(rows)
                   /\ Len(appLoads[b].stops) = BlockSize(rows, b)
                   /\ appLoads[b].expectedTimeMinutes
                        = MathRound(SumOver(rows, BlockFirst(rows, b), BlockLast(rows, b), "distance")
                                    + RowReturnLeg(rows[BlockLast(rows, b)])
                                    + Num(30) * BlockSize(rows, b))

\* Two Loads, the first finalized by the change of load id and the second by
\* the end of the input, one of them with a half kilometre to round.
C5_Witness ==
    /\ pc = "parsed"
    /\ Len(appLoads) = 2
    /\ Len(appLoads[1].stops) = 2
    /\ \E b \in 1..2 : (appLoads[b].totalDistance + appLoads[b].totalReturnLeg) % 10 # 0

----------------------------------------------------------------------------
(* C6 *)

Unknown == <<"U", "N", "K", "N", "O", "W", "N">>

Absent(v) == v = Undefined \/ v = <<>>

\* The six scalars of the load are those of the row, with the defaults.
ScalarsOfRow(load, row) ==
    /\ load.routeNo = At(row, 1)
    /\ load.driver = (IF Absent(At(row, 13)) THEN Unknown ELSE At(row, 13))
    /\ load.truck = (IF Absent(At(row, 14)) THEN <<>> ELSE At(row, 14))
    /\ load.trailer = (IF Absent(At(row, 15)) THEN <<>> ELSE At(row, 15))
    /\ load.despatchTime = (IF Absent(At(row, 16)) THEN <<>> ELSE At(row, 16))
    /\ load.date = (IF Absent(At(row, 6)) THEN <<>> ELSE At(row, 6))
    /\ load.driver # <<>>

\* The data rows among the lines that forEach has processed.
ProcessedRows ==
    SelectSeq([i \in 1..(idx - 1) |-> Cols(lines[i])], isNewLoad)

\* C6: routeNo, driver, truck, trailer, despatchTime and date of every Load
\* are the values of the first row of its block (driver 'UNKNOWN', the others
\* '' when that field is empty or missing); a later row of the same load id
\* leaves the six unchanged, whatever it carries, and no driver is empty.
C6_ScalarsFromFirstRow ==
    /\ (pc = "scan" /\ currentLoad # <<>>) =>
           LET rows == ProcessedRows
           IN  /\ rows # <<>>
               /\ ScalarsOfRow(currentLoad[1], rows[BlockFirst(rows, NumBlocks(rows))])
    /\ Parsed =>
           LET rows == DataRows
           IN  \A b \in 1..Len(appLoads) :
                   /\ b <= NumBlocks(rows)
                   /\ ScalarsOfRow(appLoads[b], rows[BlockFirst(rows, b)])

\* A Load whose second row names another driver, and a Load of a row without
\* a driver column.
C6_Witness ==
    /\ pc = "parsed"
    /\ \E b \in 1..Len(appLoads) :
           /\ Len(appLoads[b].stops) >= 2
           /\ ~Absent(At(DataRows[BlockLast(DataRows, b)], 13))
           /\ At(DataRows[BlockLast(DataRows, b)], 13) # appLoads[b].driver
           /\ At(DataRows[BlockLast(DataRows, b)], 14) # appLoads[b].truck
    /\ \E b \in 1..Len(appLoads) :
           /\ appLoads[b].driver = Unknown
           /\ At(DataRows[BlockFirst(DataRows, b)], 13) = Undefined

----------------------------------------------------------------------------
(* C7 *)

\* The trimmed first field of the line is empty or is not a number.
LineSkipped(line) ==
    LET first == trim(split(line, ",")[1])
    IN  first = <<>> \/ Number(first).nan

\* forEach passes over a line that is skipped.
SkippedStep ==
    /\ pc = "scan"
    /\ idx <= Len(lines)
    /\ LineSkipped(lines[idx])
    /\ idx' = idx + 1

\* What follows for the returned list.
C7_Consequences ==
    Parsed =>
        LET rows == DataRows
        IN  /\ (rows = <<>> => appLoads = <<>>)
            /\ (csvText = <<>> => appLoads = <<>>)
            /\ \A r \in 1..(Len(rows) - 1) :
                   RowId(rows, r) = RowId(rows, r + 1) =>
                       LET b == BlockOf(rows, r)
                           k == r - BlockFirst(rows, b) + 1
                       IN  /\ b <= Len(appLoads)
                           /\ k + 1 <= Len(appLoads[b].stops)
                           /\ appLoads[b].stops[k].storeNo = At(rows[r], 3)
                           /\ appLoads[b].stops[k + 1].storeNo = At(rows[r + 1], 3)

\* C7: a line whose trimmed first field is empty or not a number is a pure
\* no-op: the output list and the accumulating Load are left as they were; so
\* data rows of one load id separated only by such lines form one Load, and an
\* input without data rows (the empty text too) gives the empty list.
C7_SkippedLineNoOp ==
    /\ [][SkippedStep => (loads' = loads /\ currentLoad' = currentLoad)]_vars
    /\ []C7_Consequences

\* Two rows of one load id around a skipped line, parsed into one Load.
C7_Witness ==
    /\ pc = "parsed"
    /\ Len(lines) = 3
    /\ ~LineSkipped(lines[1])
    /\ LineSkipped(lines[2])
    /\ ~LineSkipped(lines[3])
    /\ Len(appLoads) = 1
    /\ Len(appLoads[1].stops) = 2

----------------------------------------------------------------------------
(* C8 *)

Drivers == {appLoads[i].driver : i \in 1..Len(appLoads)}

RECURSIVE KmsOfDriver(_, _)
KmsOfDriver(ls, driver) ==
    IF ls = <<>> THEN 0
    ELSE (IF ls[1].driver = driver THEN ls[1].totalDistance + ls[1].totalReturnLeg ELSE 0)
         + KmsOfDriver(Tail(ls), driver)

----------------------------------------------------------------------------
(* C9 *)

\* Minute of the day of a despatch time made of digits and at most one colon;
\* the empty time and a missing minute count as 0.
MinuteOfDay(c) ==
    IF \A i \in 1..Len(c) : c[i] # ":"
    THEN 60 * DecValue(c)
    ELSE LET k == CHOOSE i \in 1..Len(c) : c[i] = ":"
         IN  60 * DecValue(SubSeq(c, 1, k - 1)) + DecValue(SubSeq(c, k + 1, Len(c)))

RECURSIVE GapSum(_)
GapSum(ls) ==
    IF Len(ls) < 2 THEN Fin(0)
    ELSE Plus(calculateMinutesBetween(ls[1].despatchTime, ls[2].despatchTime), GapSum(Tail(ls)))

\* avg is total / gaps rounded to the nearest integer, a half going up.
IsRoundedMean(avg, total, gaps) ==
    IF total.nan THEN avg.nan
    ELSE /\ ~avg.nan
         /\ avg.val % 10 = 0
         /\ (2 * (avg.val \div 10) - 1) * 5 * gaps <= total.val
         /\ total.val < (2 * (avg.val \div 10) + 1) * 5 * gaps

\* C9: avgTimeBetweenLoadsMinutes is 0 for a driver with fewer than 2 loads;
\* otherwise it is the sum of calculateMinutesBetween over the adjacent pairs
\* of the driver's loads in despatch-time order, divided by the number of
\* loads less one, and rounded.
C9_AvgTimeBetweenLoads ==
    pc = "done" =>
        \A s \in 1..Len(driverStats) :
            LET ls == driverStats[s].loads
                n  == Len(ls)
            IN  /\ \A i, j \in 1..n :
                       i < j => MinuteOfDay(ls[i].despatchTime) <= MinuteOfDay(ls[j].despatchTime)
                /\ (n < 2 => driverStats[s].avgTimeBetweenLoadsMinutes = Fin(0))
                /\ (n >= 2 => IsRoundedMean(driverStats[s].avgTimeBetweenLoadsMinutes, GapSum(ls), n - 1))

\* A driver of three loads that the sort has reordered, with gaps whose mean
\* ends in a half.
C9_Witness ==
    /\ pc = "done"
    /\ \E s \in 1..Len(driverStats) :
           /\ Len(driverStats[s].loads) = 3
           /\ driverStats[s].loads # appLoads
           /\ (GapSum(driverStats[s].loads).val \div 10) % 2 = 1
           /\ driverStats[s].avgTimeBetweenLoadsMinutes.val > 0

----------------------------------------------------------------------------
(* C10 *)

Late == <<"2", "3", ":", "5", "0">>

Early == <<"0", "0", ":", "1", "0">>

AbsDiff(a, b) == IF a < b THEN b - a ELSE a - b

\* C10: for well-formed clock strings a = "Ha:Ma" and b = "Hb:Mb",
\* calculateMinutesBetween(a, b) = |(60 Ha + Ma) - (60 Hb + Mb)|, with no
\* correction across midnight: it is symmetric, "23:50" and "00:10" give 1420
\* and not 20, and a driver whose two loads are despatched at those times has
\* avgTimeBetweenLoadsMinutes = 1420.
C10_MinutesBetween ==
    (pc \in {"called", "done"} /\ time1 \in WellFormedClocks /\ time2 \in WellFormedClocks) =>
        /\ minutes[1] = Fin(Num(AbsDiff(MinuteOfDay(time1), MinuteOfDay(time2))))
        /\ minutes[1] = calculateMinutesBetween(time2, time1)
        /\ (time1 = Late /\ time2 = Early => minutes[1] = Fin(Num(1420)))
        /\ pc = "done" =>
               /\ Len(driverStats) = 1
               /\ Len(driverStats[1].loads) = 2
               /\ driverStats[1].avgTimeBetweenLoadsMinutes
                    = Fin(Num(AbsDiff(MinuteOfDay(time1), MinuteOfDay(time2))))
               /\ (time1 = Late /\ time2 = Early =>
                       driverStats[1].avgTimeBetweenLoadsMinutes = Fin(Num(1420)))

\* The driver's two loads despatched at "23:50" and "00:10".
C10_Witness ==
    /\ pc = "done"
    /\ time1 = Late
    /\ time2 = Early
    /\ minutes = <<Fin(Num(1420))>>
    /\ Len(driverStats) = 1
    /\ driverStats[1].loads[1].despatchTime = Early
    /\ driverStats[1].loads[2].despatchTime = Late

----------------------------------------------------------------------------
(* C11 *)

RECURSIVE SumLoadKms(_)
SumLoadKms(ls) == IF ls = <<>> THEN 0 ELSE ls[1].totalDistance + ls[1].totalReturnLeg + SumLoadKms(Tail(ls))

RECURSIVE SumLoadPallets(_)
SumLoadPallets(ls) == IF ls = <<>> THEN 0 ELSE ls[1].totalPallets + SumLoadPallets(Tail(ls))

RECURSIVE SumLoadExpected(_)
SumLoadExpected(ls) == IF ls = <<>> THEN 0 ELSE ls[1].expectedTimeMinutes + SumLoadExpected(Tail(ls))

RECURSIVE SumStatLoads(_)
SumStatLoads(ds) == IF ds = <<>> THEN 0 ELSE Len(ds[1].loads) + SumStatLoads(Tail(ds))

\* C11: the totals computed through the per-driver aggregates agree with the
\* direct sums over the load list: loads is the number of loads and the sum
\* of the lengths of the DriverStats loads, kms the sum of totalDistance +
\* totalReturnLeg, pallets the sum of totalPallets, drivers the number of
\* distinct driver strings, avgExpectedTime the mean of expectedTimeMinutes;
\* for the empty input the load list and the DriverStats list are empty and
\* the five totals are 0.
C11_TotalsAgree ==
    pc = "done" =>
        LET t == totals(appLoads, driverStats)
        IN  /\ t.loads = Len(appLoads)
            /\ t.loads = SumStatLoads(driverStats)
            /\ t.kms = SumLoadKms(appLoads)
            /\ t.pallets = SumLoadPallets(appLoads)
            /\ t.drivers = Cardinality(Drivers)
            /\ t.avgExpectedTime.den > 0
            /\ t.avgExpectedTime.num * Len(appLoads) = SumLoadExpected(appLoads) * t.avgExpectedTime.den
            /\ (appLoads = <<>> => t.avgExpectedTime.num = 0)
            /\ csvText = <<>> =>
                   /\ appLoads = <<>>
                   /\ driverStats = <<>>
                   /\ t.loads = 0 /\ t.kms = 0 /\ t.pallets = 0 /\ t.drivers = 0
                   /\ t.avgExpectedTime.num = 0

\* Three loads of two drivers, with kilometres and pallets to add up.
C11_Witness ==
    /\ pc = "done"
    /\ Len(appLoads) = 3
    /\ Len(driverStats) = 2
    /\ totals(appLoads, driverStats).kms > 0
    /\ totals(appLoads, driverStats).pallets > 0

\* The empty input has been uploaded and rendered.
C11_WitnessEmpty == pc = "done" /\ csvText = <<>> /\ driverStats = <<>>

----------------------------------------------------------------------------
(* C12 *)

\* C12: when the latest completed call of the analysis service has failed,
\* no analysis result is held: analysis is null, not the result of an
\* earlier successful call.
C12_NoResultAfterFailure ==
    lastOutcome = "failed" => analysis = <<>>

\* A first call succeeded, a second one failed, and the first result is
\* still held.
C12_StaleAfterFailure ==
    /\ lastOutcome = "failed"
    /\ calls = 2
    /\ errorLog = 1
    /\ ~isAnalyzing
    /\ analysis # <<>>

----------------------------------------------------------------------------
(* C13 *)

\* The step in which a call of the analysis service fails.
FailureStep == errorLog' = errorLog + 1

\* The step in which runAnalysis is invoked.
InvocationStep == calls' = calls + 1

\* C13: a failed call of the analysis service is contained by runAnalysis:
\* the load list, the DriverStats list and the totals are after the failure
\* what they were before, isAnalyzing is false again and no request is sent
\* anew; an invocation of runAnalysis sends exactly one request, and none
\* when the DriverStats list is empty, and nothing else sends one.
C13_FailureContained ==
    /\ [][FailureStep =>
            /\ appLoads' = appLoads
            /\ driverStats' = driverStats
            /\ totals(appLoads', driverStats') = totals(appLoads, driverStats)
            /\ isAnalyzing /\ ~isAnalyzing'
            /\ inFlight' = <<>>
            /\ requests' = requests]_vars
    /\ [][IF InvocationStep
          THEN requests' = requests + (IF driverStats = <<>> THEN 0 ELSE 1)
          ELSE requests' = requests]_vars
    /\ [](requests <= calls)

\* Loads are held, the one call made has failed, one request was sent.
C13_Witness ==
    /\ appLoads # <<>>
    /\ lastOutcome = "failed"
    /\ errorLog = 1
    /\ calls = 1
    /\ requests = 1
    /\ ~isAnalyzing

\* runAnalysis was invoked with no DriverStats: no request was sent.
C13_WitnessNoStats == calls = 1 /\ requests = 0 /\ driverStats = <<>> /\ ~isAnalyzing

----------------------------------------------------------------------------
(* C14 *)

\* C14: every stop of every parsed load has distance >= 0 and
\* returnLeg >= 0, and every load totalDistance >= 0 and
\* totalReturnLeg >= 0, whatever the distance and return-leg columns hold.
C14_NonNegativeDistances ==
    Parsed =>
        \A i \in 1..Len(appLoads) :
            /\ \A k \in 1..Len(appLoads[i].stops) :
                   /\ appLoads[i].stops[k].distance >= 0
                   /\ appLoads[i].stops[k].returnLeg >= 0
            /\ appLoads[i].totalDistance >= 0
            /\ appLoads[i].totalReturnLeg >= 0

\* The row whose distance column holds "-5" has become a load of its own.
C14_NegativeDistanceKept ==
    /\ Parsed
    /\ csvText = RowSeven
    /\ Len(appLoads) = 1
    /\ appLoads[1].stops[1].distance = 0 - Num(5)
    /\ appLoads[1].totalDistance = 0 - Num(5)

----------------------------------------------------------------------------
(* C15 *)

\* The driverStats memo is that of the load list held.
Rendered == pc \in {"done", "app"}

\* The place in the load list of the driver's first load.
FirstLoadOf(driver) == CHOOSE i \in 1..Len(appLoads) :
    /\ appLoads[i].driver = driver
    /\ \A j \in 1..(i - 1) : appLoads[j].driver # driver

Bob == <<"B", "o", "b">>

\* C15: drivers with equal totalKms appear in the DriverStats sequence in
\* the order in which their first loads occur in the load list, whatever the
\* driver names are, names made of digits included.
C15_TiesInDiscoveryOrder ==
    Rendered =>
        \A i, j \in 1..Len(driverStats) :
            (i < j /\ driverStats[i].totalKms = driverStats[j].totalKms) =>
                FirstLoadOf(driverStats[i].driverName) < FirstLoadOf(driverStats[j].driverName)

\* Bob's load comes before the load of 7, both of 5 km: 7 is listed first.
C15_DigitsNameFirst ==
    /\ Rendered
    /\ Len(appLoads) = 2
    /\ appLoads[1].driver = Bob
    /\ appLoads[2].driver = <<"7">>
    /\ Len(driverStats) = 2
    /\ driverStats[1].totalKms = Num(5)
    /\ driverStats[2].totalKms = Num(5)
    /\ driverStats[1].driverName = <<"7">>
    /\ driverStats[2].driverName = Bob

----------------------------------------------------------------------------
(* C16 *)

\* The places in the load list of the driver's loads.
LoadsOf(driver) == {i \in 1..Len(appLoads) : appLoads[i].driver = driver}

\* ls lists the loads at the places own, one each, by ascending minute of
\* the day, those of equal minute in the order of their places.
IsStableDespatchOrder(ls, own) ==
    /\ Len(ls) = Cardinality(own)
    /\ \E f \in [1..Len(ls) -> own] :
           /\ \A k \in 1..Len(ls) : appLoads[f[k]] = ls[k]
           /\ \A k, l \in 1..Len(ls) :
                  k < l =>
                      LET mk == MinuteOfDay(appLoads[f[k]].despatchTime)
                          ml == MinuteOfDay(appLoads[f[l]].despatchTime)
                      IN  mk < ml \/ (mk = ml /\ f[k] < f[l])

\* C16: the loads of each DriverStats are exactly the loads of the load list
\* whose driver is driverName, each once, in ascending order of the minute of
\* the day of despatchTime (60 * hour + minute, a missing minute and an empty
\* despatchTime counting as 0); loads of equal minute keep the order they
\* have in the load list.
C16_LoadsByDespatchTime ==
    pc = "done" =>
        \A s \in 1..Len(driverStats) :
            IsStableDespatchOrder(driverStats[s].loads, LoadsOf(driverStats[s].driverName))

\* A driver of three loads: the first and the third are distinct loads
\* despatched at the same minute, the second is despatched later and has
\* moved to the end.
C16_Witness ==
    /\ pc = "done"
    /\ Len(appLoads) = 3
    /\ Len(driverStats) = 1
    /\ MinuteOfDay(appLoads[2].despatchTime) > MinuteOfDay(appLoads[1].despatchTime)
    /\ MinuteOfDay(appLoads[1].despatchTime) = MinuteOfDay(appLoads[3].despatchTime)
    /\ appLoads[1] # appLoads[3]
    /\ driverStats[1].loads = <<appLoads[1], appLoads[3], appLoads[2]>>

----------------------------------------------------------------------------
(* C17 *)

AllDigits(c) == c # <<>> /\ \A i \in 1..Len(c) : c[i] \in Digits

\* The text before the first colon, and the text after it up to the next one.
HourPart(c) == split(c, ":")[1]

MinutePart(c) == IF Len(split(c, ":")) >= 2 THEN split(c, ":")[2] ELSE <<>>

\* The hour with the minute, a missing or unparsable minute counting as 0.
LenientMinuteOfDay(c) ==
    60 * DecValue(HourPart(c)) + (IF AllDigits(MinutePart(c)) THEN DecValue(MinutePart(c)) ELSE 0)

\* C17: calculateMinutesBetween returns a non-negative integer for every
\* pair of strings: 0 when either is empty; a string without ':' or with a
\* missing or unparsable minute counts as its hour with minute 0 ("8" and
\* "9:30" give 90); a string whose hour is not a number ("abc") still gives
\* an integer and not a non-number.
C17_TotalAndInteger ==
    pc \in {"called", "done"} =>
        /\ ~minutes[1].nan
        /\ minutes[1].val >= 0
        /\ minutes[1].val % 10 = 0
        /\ (time1 = <<>> \/ time2 = <<>> => minutes[1] = Fin(0))
        /\ (AllDigits(HourPart(time1)) /\ AllDigits(HourPart(time2)) =>
                minutes[1] = Fin(Num(AbsDiff(LenientMinuteOfDay(time1), LenientMinuteOfDay(time2)))))
        /\ (time1 = <<"8">> /\ time2 = <<"9", ":", "3", "0">> => minutes[1] = Fin(Num(90)))

\* Called on "abc" and "8:00", the function has returned NaN.
C17_NotANumber ==
    /\ pc = "called"
    /\ time1 = <<"a", "b", "c">>
    /\ time2 = <<"8", ":", "0", "0">>
    /\ minutes = <<NaN>>

\* What does hold: the result is NaN exactly when both strings are non-empty
\* and one has an hour part that is no number; otherwise it is the
\* non-negative integer described above.
C17_IntegerUnlessHourUnparsable ==
    pc \in {"called", "done"} =>
        /\ minutes[1].nan <=> /\ time1 # <<>> /\ time2 # <<>>
                              /\ (Number(HourPart(time1)).nan \/ Number(HourPart(time2)).nan)
        /\ (time1 = <<>> \/ time2 = <<>> => minutes[1] = Fin(0))
        /\ (AllDigits(HourPart(time1)) /\ AllDigits(HourPart(time2)) =>
                minutes[1] = Fin(Num(AbsDiff(LenientMinuteOfDay(time1), LenientMinuteOfDay(time2)))))
        /\ (time1 = <<"8">> /\ time2 = <<"9", ":", "3", "0">> => minutes[1] = Fin(Num(90)))

----------------------------------------------------------------------------
(* C18 *)

\* The loads pushed so far stay as they are, in their places.
PushedLoadsKept ==
    /\ Len(loads') >= Len(loads)
    /\ \A n \in 1..Len(loads) : loads'[n] = loads[n]

\* The loads listed in the DriverStats are loads of the load list.
StatsHoldListedLoads ==
    \A s \in 1..Len(driverStats) :
        \A k \in 1..Len(driverStats[s].loads) :
            \E n \in 1..Len(appLoads) : driverStats[s].loads[k] = appLoads[n]

\* C18: a load is sealed once finalized.  During the scan at most one load
\* is accumulating, and no step changes a load that has been appended to the
\* output list: not the processing of a later row, also one with the same
\* loadNo, and not the driver aggregation, which leaves the load list in
\* the order of the input rows and lists its loads unchanged.
C18_SealedOnceFinalized ==
    /\ [](Len(currentLoad) <= 1)
    /\ [][PushedLoadsKept]_vars
    /\ [][pc = "parsed" => (appLoads' = appLoads /\ loads' = loads)]_vars
    /\ [](pc \in {"parsed", "done"} => appLoads = loads)
    /\ [](pc = "done" => StatsHoldListedLoads)

\* A third row carried the loadNo of the first load after another load: the
\* first load kept its one stop, and the aggregation listed the driver's
\* loads in another order than the load list.
C18_Witness ==
    /\ pc = "done"
    /\ Len(appLoads) = 3
    /\ appLoads[3].loadNo = appLoads[1].loadNo
    /\ appLoads[2].loadNo # appLoads[1].loadNo
    /\ Len(appLoads[1].stops) = 1
    /\ Len(driverStats) = 1
    /\ driverStats[1].loads # appLoads

----------------------------------------------------------------------------
(* C19 *)

\* The lines of the text held that are data rows, untrimmed.
DataLines ==
    LET ls     == split(csvText, "\n")
        isData(line) == isNewLoad(Cols(line))
    IN  SelectSeq(ls, isData)

\* The trimmed first field of a line.
TrimmedId(line) == trim(split(line, ",")[1])

\* The number of stops of the first b loads.
RECURSIVE StopsUpTo(_)
StopsUpTo(b) == IF b = 0 THEN 0 ELSE StopsUpTo(b - 1) + Len(appLoads[b].stops)

\* The load that holds the stop of the r-th data row.
LoadOfRow(r) == CHOOSE b \in 1..Len(appLoads) : StopsUpTo(b - 1) < r /\ r <= StopsUpTo(b)

\* C19: load ids are compared as trimmed text.  Two consecutive data rows
\* are in the same load if and only if their trimmed first fields are the
\* same text: "1" then "01" or "1.0" start separate loads, ids that differ
\* in surrounding white space only are grouped; loadNo is the trimmed id of
\* the load's first row.
C19_IdsComparedAsText ==
    (Parsed \/ pc = "app") =>
        LET rows == DataLines
        IN  /\ StopsUpTo(Len(appLoads)) = Len(rows)
            /\ \A b \in 1..Len(appLoads) : Len(appLoads[b].stops) >= 1
            /\ \A r \in 2..Len(rows) :
                   LoadOfRow(r) = LoadOfRow(r - 1) <=> TrimmedId(rows[r]) = TrimmedId(rows[r - 1])
            /\ \A b \in 1..Len(appLoads) :
                   appLoads[b].loadNo = TrimmedId(rows[StopsUpTo(b - 1) + 1])

\* The rows with the ids "1", " 1 ", "01" and "1.0" have become three loads:
\* "1" of two stops, "01" and "1.0".
C19_Witness ==
    /\ pc = "app"
    /\ csvText = IdsText
    /\ Len(appLoads) = 3
    /\ appLoads[1].loadNo = <<"1">>
    /\ Len(appLoads[1].stops) = 2
    /\ appLoads[2].loadNo = <<"0", "1">>
    /\ appLoads[3].loadNo = <<"1", ".", "0">>

----------------------------------------------------------------------------
(* C20 *)

\* The Operational Insights panel is rendered: csvData && analysis.
AnalysisDisplayed == csvText # <<>> /\ analysis # <<>>

\* C20: whatever the order of uploads, analysis requests and their
\* completions, an analysis on display was computed from the DriverStats of
\* the load list now held: no upload leaves the analysis of the file before
\* on display, and no answer to a request older than the latest upload is
\* shown with the newer loads.
C20_AnalysisOfCurrentLoads ==
    AnalysisDisplayed => analysis[1].computedFrom = driverStats

\* The analysis on display was computed from other DriverStats than those
\* of the loads held and shown next to it.
C20_StaleAnalysisDisplayed ==
    /\ AnalysisDisplayed
    /\ appLoads # <<>>
    /\ ~isAnalyzing
    /\ analysis[1].computedFrom # driverStats
    /\ analysis[1].computedFrom # <<>>

\* A request is pending for DriverStats that an upload has since replaced.
C20_RequestOutlivesUpload ==
    /\ isAnalyzing
    /\ inFlight # <<>>
    /\ analysis = <<>>
    /\ driverStats # <<>>
    /\ inFlight[1] # driverStats

====
